---- MODULE Spec2Model ----
(***************************************************************************)
(* Model of the OpenSanctions Obsidian plugin's API client                 *)
(* (OpenSanctionsApiClient): the rate limiter in front of every request,   *)
(* and fetchWithRelationships, which enriches one entity with the          *)
(* relationship records around it.                                         *)
(*                                                                         *)
(* JavaScript runs each stretch of code between two awaits atomically, so  *)
(* every action below is one such stretch: from the arrival of a network   *)
(* response (or a timer) up to the next await or the return.               *)
(***************************************************************************)
EXTENDS Integers, Sequences, FiniteSets, TLC

\* ------------------------------------------------------------------ values

\* undefined / null / a missing field
Null == "null"

\* the identifier fetchWithRelationships is called with; the other entities
\* are "Y" and "Z"
AnchorIds == {"X"}
\* identifiers of relationship records
RelIds == {"r1", "r2"}
\* display captions
Captions == {"a", "b"}

\* A property value: a bare string identifier, an embedded object with an id
\* (and perhaps a caption), or anything else (null, a number, an object
\* without id).
StrVal(i) == [kind |-> "str", id |-> i, caption |-> Null]
ObjVal(i, c) == [kind |-> "obj", id |-> i, caption |-> c]
JunkVal == [kind |-> "junk", id |-> Null, caption |-> Null]

\* A property of a property bag: absent (undefined), an array of values, or a
\* truthy value that is no array and no string (a number, a plain object).
Undef == [shape |-> "undef", vals |-> <<>>]
NonList == [shape |-> "nonlist", vals |-> <<>>]
List(s) == [shape |-> "list", vals |-> s]

\* The schema tags the switch of fetchWithRelationships knows.
OneWaySchemas == {"Directorship", "Employment", "Membership"}
SymmetricSchemas == {"Family", "Associate"}
LinkSchemas == {"UnknownLink", "Succession", "Representation"}
RelationshipSchemas == OneWaySchemas \cup {"Ownership"} \cup SymmetricSchemas \cup LinkSchemas
\* A tag that is none of them.
OtherSchemas == {"Person"}

\* An entity record as the code reads it. bag: whether `properties` exists.
\* a and b are the two role properties of the record's schema, in the order
\* the property bag lists them:
\*   Directorship director/organization, Ownership owner/asset,
\*   Employment employee/employer, Membership member/organization,
\*   Family person/relative, Associate person/associate,
\*   UnknownLink, Succession, Representation subject/object.
Rec(i, s, c, a, b) == [id |-> i, schema |-> s, caption |-> c, bag |-> TRUE, a |-> a, b |-> b]
\* A record without a property bag.
BareRec(i, s, c) == [id |-> i, schema |-> s, caption |-> c, bag |-> FALSE, a |-> Undef, b |-> Undef]

\* The category written for the anchor in role a.
RoleACategory(s) ==
    CASE s = "Directorship" -> "directorOf"
      [] s = "Ownership" -> "ownerOf"
      [] s = "Employment" -> "employeeOf"
      [] s = "Membership" -> "memberOf"
      [] s = "Family" -> "family"
      [] s = "Associate" -> "coConspirator"
      [] OTHER -> "relatedTo"

BucketNames == {"directorOf", "ownerOf", "ownedBy", "employeeOf", "memberOf",
                "relatedTo", "family", "coConspirator"}

\* ------------------------------------------------------- the caption map

\* The working state of one fetchWithRelationships call between two awaits:
\*   cm          captionMap (a Map: identifier -> caption)
\*   writes      every captionMap.set so far, in order (history)
\*   entries     relationshipEntries
\*   unresolved  unresolvedIds, a Set in insertion order
\*   threw       a TypeError was raised
EmptyMap == [x \in {} |-> Null]

MapSet(cm, k, v) == [x \in (DOMAIN cm) \cup {k} |-> IF x = k THEN v ELSE cm[x]]

CaptionSet(st, k, v) ==
    [st EXCEPT !.cm = MapSet(st.cm, k, v),
               !.writes = Append(st.writes, [id |-> k, caption |-> v])]

\* A plausible bug: no fallback to the identifier.
DisplayNameNoFallback(cm, id) == IF id \in DOMAIN cm /\ cm[id] # Null THEN cm[id] ELSE "Unknown"

\* captionMap.get(id) || id
DisplayName(cm, id) == IF id \in DOMAIN cm /\ cm[id] # Null THEN cm[id] ELSE id

\* ------------------------------------------------- reference extraction

\* values.some(...) on something that is no array raises a TypeError
PropertyContainsIdThrows(p) == p.shape = "nonlist"

\* A plausible bug: only the first value is compared.
PropertyContainsIdFirstOnly(p, entityId) ==
    /\ p.shape = "list"
    /\ Len(p.vals) > 0
    /\ p.vals[1].kind \in {"str", "obj"}
    /\ p.vals[1].id = entityId

\* A plausible bug: any identifier counts, not only entityId.
PropertyContainsIdAny(p, entityId) ==
    /\ p.shape = "list"
    /\ \E k \in 1..Len(p.vals) : p.vals[k].kind \in {"str", "obj"}

PropertyContainsId(p, entityId) ==
    /\ p.shape = "list"
    /\ \E k \in 1..Len(p.vals) :
          /\ p.vals[k].kind \in {"str", "obj"}
          /\ p.vals[k].id = entityId

\* extractFirstTarget: the value it returns
FirstTargetId(p) ==
    IF p.shape = "list" /\ Len(p.vals) > 0 /\ p.vals[1].kind \in {"str", "obj"}
    THEN p.vals[1].id
    ELSE Null

\* extractFirstTarget: what it does to the caption map
FirstTargetSeed(p, st) ==
    IF p.shape = "list" /\ Len(p.vals) > 0 /\ p.vals[1].kind = "obj" /\ p.vals[1].caption # Null
    THEN CaptionSet(st, p.vals[1].id, p.vals[1].caption)
    ELSE st

\* relationshipEntries.push(...); if (!captionMap.has(id)) unresolvedIds.add(id)
SeqHas(s, x) == \E k \in 1..Len(s) : s[k] = x

\* A plausible bug: a counterpart the map knows is not recorded at all.
PushEntryOnlyUncached(st, type, targetId) ==
    IF targetId \in DOMAIN st.cm THEN st
    ELSE [st EXCEPT !.entries = Append(st.entries, [type |-> type, targetId |-> targetId]),
                    !.unresolved = IF SeqHas(st.unresolved, targetId)
                                   THEN st.unresolved
                                   ELSE Append(st.unresolved, targetId)]

\* A plausible bug: the identifier is marked unresolved without asking the map.
PushEntryAlwaysUnresolved(st, type, targetId) ==
    [st EXCEPT !.entries = Append(st.entries, [type |-> type, targetId |-> targetId]),
               !.unresolved = IF SeqHas(st.unresolved, targetId)
                              THEN st.unresolved
                              ELSE Append(st.unresolved, targetId)]

PushEntry(st, type, targetId) ==
    [st EXCEPT !.entries = Append(st.entries, [type |-> type, targetId |-> targetId]),
               !.unresolved = IF targetId \in DOMAIN st.cm \/ SeqHas(st.unresolved, targetId)
                              THEN st.unresolved
                              ELSE Append(st.unresolved, targetId)]

Throw(st) == [st EXCEPT !.threw = TRUE]

\* ------------------------------------------------------- classification

\* case 'Directorship', 'Employment', 'Membership': role a only
OneWayCase(rel, entityId, st) ==
    IF ~rel.bag \/ PropertyContainsIdThrows(rel.a) THEN Throw(st)
    ELSE IF PropertyContainsId(rel.a, entityId)
    THEN LET s1 == FirstTargetSeed(rel.b, st)
             t == FirstTargetId(rel.b)
         IN IF t # Null THEN PushEntry(s1, RoleACategory(rel.schema), t) ELSE s1
    ELSE st

\* case 'Ownership'
OwnershipCase(rel, entityId, st) ==
    IF ~rel.bag \/ PropertyContainsIdThrows(rel.a) THEN Throw(st)
    ELSE IF PropertyContainsId(rel.a, entityId)
    THEN LET s1 == FirstTargetSeed(rel.b, st)
             t == FirstTargetId(rel.b)
         IN IF t # Null THEN PushEntry(s1, "ownerOf", t) ELSE s1
    ELSE IF PropertyContainsIdThrows(rel.b) THEN Throw(st)
    ELSE IF PropertyContainsId(rel.b, entityId)
    THEN LET s1 == FirstTargetSeed(rel.a, st)
             t == FirstTargetId(rel.a)
         IN IF t # Null THEN PushEntry(s1, "ownedBy", t) ELSE s1
    ELSE st

\* case 'Family', 'Associate'
SymmetricCase(rel, entityId, st) ==
    IF ~rel.bag \/ PropertyContainsIdThrows(rel.a) THEN Throw(st)
    ELSE IF PropertyContainsId(rel.a, entityId)
    THEN LET s1 == FirstTargetSeed(rel.b, st)
             t == FirstTargetId(rel.b)
         IN IF t # Null /\ t # entityId THEN PushEntry(s1, RoleACategory(rel.schema), t) ELSE s1
    ELSE IF PropertyContainsIdThrows(rel.b) THEN Throw(st)
    ELSE IF PropertyContainsId(rel.b, entityId)
    THEN LET s1 == FirstTargetSeed(rel.a, st)
             t == FirstTargetId(rel.a)
         IN IF t # Null /\ t # entityId THEN PushEntry(s1, RoleACategory(rel.schema), t) ELSE s1
    ELSE st

\* case 'UnknownLink', 'Succession', 'Representation'
LinkCase(rel, entityId, st) ==
    IF ~rel.bag THEN Throw(st)
    ELSE LET s1 == FirstTargetSeed(rel.a, st)
             s2 == FirstTargetSeed(rel.b, s1)
             subjectId == FirstTargetId(rel.a)
             objectId == FirstTargetId(rel.b)
         IN IF subjectId = entityId /\ objectId # Null THEN PushEntry(s2, "relatedTo", objectId)
            ELSE IF objectId = entityId /\ subjectId # Null THEN PushEntry(s2, "relatedTo", subjectId)
            ELSE s2

\* One turn of the loop `for (const rel of adjacent) switch (rel.schema)`.
ClassifyRecord(rel, entityId, st) ==
    CASE rel.schema \in OneWaySchemas -> OneWayCase(rel, entityId, st)
      [] rel.schema = "Ownership" -> OwnershipCase(rel, entityId, st)
      [] rel.schema \in SymmetricSchemas -> SymmetricCase(rel, entityId, st)
      [] rel.schema \in LinkSchemas -> LinkCase(rel, entityId, st)
      [] OTHER -> st

\* The whole first pass; a TypeError ends it.
RECURSIVE ClassifyFrom(_, _, _, _)
ClassifyFrom(adj, k, entityId, st) ==
    IF k > Len(adj) \/ st.threw THEN st
    ELSE ClassifyFrom(adj, k + 1, entityId, ClassifyRecord(adj[k], entityId, st))

\* ------------------------------------------------------ merge and seeding

\* Merge the records embedded in the primary entity behind the adjacency
\* list, skipping every identifier already present.
RECURSIVE MergeNested(_, _, _)
MergeNested(adj, nested, k) ==
    IF k > Len(nested) THEN adj
    ELSE IF \E j \in 1..Len(adj) : adj[j].id = nested[k].id
    THEN MergeNested(adj, nested, k + 1)
    ELSE MergeNested(Append(adj, nested[k]), nested, k + 1)

\* captions of the embedded objects of one property
RECURSIVE SeedValues(_, _, _)
SeedValues(vals, k, st) ==
    IF k > Len(vals) THEN st
    ELSE SeedValues(vals, k + 1,
                    IF vals[k].kind = "obj" /\ vals[k].caption # Null
                    THEN CaptionSet(st, vals[k].id, vals[k].caption)
                    ELSE st)

SeedProperty(p, st) == IF p.shape = "list" THEN SeedValues(p.vals, 1, st) ELSE st

SeedRecord(adj, st) ==
    LET s1 == IF adj.caption # Null THEN CaptionSet(st, adj.id, adj.caption) ELSE st
    IN IF adj.bag THEN SeedProperty(adj.b, SeedProperty(adj.a, s1)) ELSE s1

RECURSIVE SeedFrom(_, _, _)
SeedFrom(adj, k, st) ==
    IF k > Len(adj) THEN st ELSE SeedFrom(adj, k + 1, SeedRecord(adj[k], st))

\* ------------------------------------------------------------ second pass

EmptyBuckets == [n \in BucketNames |-> <<>>]

\* A plausible bug: a new name is put in front of the bucket.
RECURSIVE SecondPassPrepend(_, _, _, _)
SecondPassPrepend(entries, k, cm, buckets) ==
    IF k > Len(entries) THEN buckets
    ELSE LET name == DisplayName(cm, entries[k].targetId)
             arr == buckets[entries[k].type]
         IN SecondPassPrepend(entries, k + 1, cm,
                              IF SeqHas(arr, name) THEN buckets
                              ELSE [buckets EXCEPT ![entries[k].type] = <<name>> \o arr])

\* A plausible bug: the name is appended without `!arr.includes(displayName)`.
RECURSIVE SecondPassNoDedup(_, _, _, _)
SecondPassNoDedup(entries, k, cm, buckets) ==
    IF k > Len(entries) THEN buckets
    ELSE LET name == DisplayName(cm, entries[k].targetId)
             arr == buckets[entries[k].type]
         IN SecondPassNoDedup(entries, k + 1, cm,
                              [buckets EXCEPT ![entries[k].type] = Append(arr, name)])

RECURSIVE SecondPass(_, _, _, _)
SecondPass(entries, k, cm, buckets) ==
    IF k > Len(entries) THEN buckets
    ELSE LET name == DisplayName(cm, entries[k].targetId)
             arr == buckets[entries[k].type]
         IN SecondPass(entries, k + 1, cm,
                       IF SeqHas(arr, name) THEN buckets
                       ELSE [buckets EXCEPT ![entries[k].type] = Append(arr, name)])

\* ------------------------------------------------------ transport errors

\* What requestUrl rejects with: an HTTP status (0: none) and a message.
HttpStatuses == {400, 401, 403, 404, 429, 500, 503}
NetworkMessages == {"Failed to fetch", "Network request failed", "net::ERR_NAME_NOT_RESOLVED"}
Failures == [status : HttpStatuses, message : {"Request failed"}]
            \cup [status : {0}, message : NetworkMessages]

\* error.message.includes('Failed to fetch') || error.message.includes('Network')
MessageIsNetwork(m) == m \in {"Failed to fetch", "Network request failed"}

\* switch (status) of handleHttpErrorFromRequestUrl
HandleHttpErrorFromRequestUrl(status) ==
    CASE status = 400 -> "InvalidRequest"
      [] status = 401 -> "InvalidCredential"
      [] status = 403 -> "Forbidden"
      [] status = 404 -> "NotFound"
      [] status = 429 -> "RateLimited"
      [] status = 500 -> "UpstreamFailure"
      [] OTHER -> "UnknownFailure"

\* The error makeRequest rejects with (its catch block): every path throws.
MakeRequestError(f) ==
    IF f.status # 0 THEN HandleHttpErrorFromRequestUrl(f.status)
    ELSE IF MessageIsNetwork(f.message) THEN "NetworkUnreachable"
    ELSE f.message

\* ------------------------------------------------------------- the inputs

\* Bound: the relationship records one call meets, adjacency list and
\* embedded records together.
MaxRecs == 2

\* The relationship records of the enrichment model: the anchor "X" alone in
\* role a and one counterpart value in role b (the anchor itself, the bare
\* identifiers "Y" and "W", or the embedded entity "Z" under two captions);
\* for Ownership, whose two directions differ, also the reverse; and records
\* without a property bag.
PoolSchemas == {"Ownership", "Family", "Succession"}
PoolCounterparts ==
    {StrVal("X"), StrVal("Y"), StrVal("W"), ObjVal("Z", "a"), ObjVal("Z", "b")}
PoolCounterpartsOf(s) ==
    IF s = "Ownership" THEN PoolCounterparts ELSE {StrVal("X"), StrVal("Y")}

RecordPool ==
    UNION {{Rec(i, s, Null, List(<<StrVal("X")>>), List(<<v>>)) :
               i \in RelIds, v \in PoolCounterpartsOf(s)} : s \in PoolSchemas}
    \cup {Rec(i, "Ownership", Null, List(<<StrVal("Y")>>), List(<<StrVal("X")>>)) :
              i \in RelIds}
    \cup {BareRec(i, "Ownership", Null) : i \in RelIds}

SeqsUpTo(S, n) == UNION {[1..k -> S] : k \in 0..n}

\* The primary entity as far as the call reads it: its caption and the
\* embedded objects of its properties that carry an id and a schema.
PrimaryEntities(id) ==
    {[id |-> id, caption |-> c, nested |-> n] : c \in {"a"}, n \in SeqsUpTo(RecordPool, MaxRecs)}

\* ------------------------------------------------------------------ state

VARIABLES
    \* one fetchWithRelationships call
    pc,                   \* where the call stands
    entityId,             \* its argument
    entity,               \* the primary entity
    primaryFailure,       \* what the primary request rejected with (history)
    adjAttempt,           \* how getAdjacent returned: "none", "list", "empty-on-error"
    adjacent,             \* the working set
    captionMap,
    writes,               \* history of captionMap.set
    relationshipEntries,
    unresolvedIds,
    resolveIdx,           \* position of the for-of loop over unresolvedIds
    cachedAtResolve,      \* the keys of captionMap when the resolution began (history)
    resolutions,          \* the follow-up getEntity calls that settled (history)
    relationships,        \* the buckets of the returned entity
    error,                \* what the call rejected with
    requests,             \* the requests issued, in order
    \* the rate limiter
    now,                  \* Date.now()
    lastRequestTime,
    rpc,                  \* each caller of makeRequest: "idle", "sleeping", "inflight"
    wakeAt,               \* when each sleeping caller's setTimeout is due
    issued,               \* the times at which requestUrl was called (history)
    apiKey,
    keyAtCall,            \* the apiKey when each sleeping caller invoked makeRequest (history)
    sent,                 \* per request sent: that key and the header it carried (history)
    \* one relationship record put through seeding and the first pass
    cPhase, cRec, cAnchor, cOut,
    cCache, cAgain,       \* the same record classified again, on the caption map cCache
    \* one adjacency response and one primary entity, flattened and merged
    mPhase, mGroups, mNested, mOut,
    \* one property value list put through extractFirstTarget
    xPhase, xValues, xOut

enrichVars == <<pc, entityId, entity, primaryFailure, adjAttempt, adjacent, captionMap, writes,
                relationshipEntries, unresolvedIds, resolveIdx, cachedAtResolve, resolutions,
                relationships, error, requests>>
rateVars == <<now, lastRequestTime, rpc, wakeAt, issued, apiKey, keyAtCall, sent>>
classifyVars == <<cPhase, cRec, cAnchor, cOut, cCache, cAgain>>
mergeVars == <<mPhase, mGroups, mNested, mOut>>
extractVars == <<xPhase, xValues, xOut>>

\* ------------------------------------------- state of the other components

VARIABLES
    \* one adjacency response put through getAdjacent
    gPhase,               \* "off", "input", "returned"
    gResponse,            \* what makeRequest came to
    gOut,                 \* what getAdjacent returned
    \* one import from a SearchModal: the click and handleEntitySelection
    iMode,                \* ImportMode of the modal: "standard", "quick"
    rememberLastConfig,   \* settings.quickImportSettings.rememberLastConfig
    fieldConfigs,         \* settings.fieldConfigs, by schema
    lastUsedFieldConfigs, \* settings.lastUsedFieldConfigs, by schema
    selectedResults,      \* the entities handed to the handler
    tempConfigs,          \* settings.fieldConfigs while onSelect was called (history)
    hpc,                  \* where handleEntitySelection stands
    hIdx,                 \* position of its for-of loop
    generated,            \* per note generated: the field configuration read (history)
    attempts,             \* per entity done with: what was attempted (history)
    notices,              \* the Notices shown
    \* RelationshipProcessor: the entity cache and the lookups under way
    entityCache,          \* entityCache: identifier -> "entity" or "null"
    lookup,               \* per processEntityRelationships call: its getEntityWithCache
    requestsSinceClear,   \* getEntity requests per identifier since clearCache (history)
    \* NoteGenerator.createNoteWithContent and the vault
    vault,                \* the notes folder: copy number -> entry (0 is "name.md", n is "name (n).md")
    folderPresent,        \* the notes folder exists
    overwriteExisting,    \* settings.overwriteExisting
    npc,                  \* position of the createNoteWithContent call
    nContent,             \* its content argument
    nPath,                \* the path it writes to
    nOutcome,             \* what its vault call did
    nRead,                \* settings.overwriteExisting as the call read it (history)
    nBefore,              \* the vault when the call started (history)
    nCalls,               \* calls made so far
    \* SearchModal: performSearch and loadMore
    isLoading,            \* SearchModal.isLoading
    currentOffset,        \* SearchModal.currentOffset
    paramsOffset,         \* currentSearchParams.offset
    searchResults,        \* SearchModal.searchResults, as the positions of the results on the server
    totalResults,         \* SearchModal.totalResults
    inFlight,             \* the apiClient.search calls awaited
    sRequested,           \* the offsets requested so far (history)
    sBefore,              \* searchResults and the next offset when loadMore was last called (history)
    sEvent                \* what the modal did last (history)

adjVars == <<gPhase, gResponse, gOut>>
importVars == <<iMode, rememberLastConfig, fieldConfigs, lastUsedFieldConfigs, selectedResults, tempConfigs, hpc, hIdx, generated, attempts, notices>>
cacheVars == <<entityCache, lookup, requestsSinceClear>>
noteVars == <<vault, folderPresent, overwriteExisting, npc, nContent, nPath, nOutcome, nRead, nBefore, nCalls>>
searchVars == <<isLoading, currentOffset, paramsOffset, searchResults, totalResults, inFlight, sRequested, sBefore, sEvent>>

laterVars == <<adjVars, importVars, cacheVars, noteVars, searchVars>>

vars == <<enrichVars, rateVars, classifyVars, mergeVars, extractVars, laterVars>>

clientVars == <<enrichVars, rateVars, classifyVars, mergeVars, extractVars>>
adjOthers == <<clientVars, importVars, cacheVars, noteVars, searchVars>>
importOthers == <<clientVars, adjVars, cacheVars, noteVars, searchVars>>
cacheOthers == <<clientVars, adjVars, importVars, noteVars, searchVars>>
noteOthers == <<clientVars, adjVars, importVars, cacheVars, searchVars>>
searchOthers == <<clientVars, adjVars, importVars, cacheVars, noteVars>>

\* --------------------------------------------------- fetchWithRelationships

\* Before the primary response: no entity, no failure, no buckets.
NoEntity == [id |-> Null, caption |-> Null, nested |-> <<>>]
NoFailure == [status |-> 0, message |-> Null]
NoRelationships == [n \in {} |-> <<>>]

EnrichInit ==
    /\ pc = "idle"
    /\ entityId = Null
    /\ entity = NoEntity
    /\ primaryFailure = NoFailure
    /\ adjAttempt = "none"
    /\ adjacent = <<>>
    /\ captionMap = EmptyMap
    /\ writes = <<>>
    /\ relationshipEntries = <<>>
    /\ unresolvedIds = <<>>
    /\ resolveIdx = 0
    /\ cachedAtResolve = {}
    /\ resolutions = <<>>
    /\ relationships = NoRelationships
    /\ error = Null
    /\ requests = <<>>

EntityRequest(id) == [endpoint |-> "entity", id |-> id]
AdjacentRequest(id) == [endpoint |-> "adjacent", id |-> id]

\* fetchWithRelationships(id) up to `await this.getEntity(entityId)`
Call(id) ==
    /\ pc = "idle"
    /\ pc' = "primary"
    /\ entityId' = id
    /\ requests' = Append(requests, EntityRequest(id))
    /\ UNCHANGED <<entity, primaryFailure, adjAttempt, adjacent, captionMap, writes,
                   relationshipEntries, unresolvedIds, resolveIdx, cachedAtResolve,
                   resolutions, relationships, error>>
    /\ UNCHANGED <<rateVars, classifyVars, mergeVars, extractVars, laterVars>>

\* A plausible bug: the rejection is caught and the call carries on to return.
PrimaryFailureSwallowed(f) == [pc |-> "done", error |-> Null]

\* The primary getEntity rejects: nothing catches it, the call rejects with
\* the same error.
PrimaryFailure(f) == [pc |-> "failed", error |-> MakeRequestError(f)]

PrimaryFails ==
    /\ pc = "primary"
    /\ \E f \in Failures :
          /\ pc' = PrimaryFailure(f).pc
          /\ error' = PrimaryFailure(f).error
          /\ primaryFailure' = f
    /\ UNCHANGED <<entityId, entity, adjAttempt, adjacent, captionMap, writes,
                   relationshipEntries, unresolvedIds, resolveIdx, cachedAtResolve,
                   resolutions, relationships, requests>>
    /\ UNCHANGED <<rateVars, classifyVars, mergeVars, extractVars, laterVars>>

\* The primary getEntity resolves; on to `await this.getAdjacent(entityId)`.
PrimaryOkWith(e) ==
    /\ pc = "primary"
    /\ entity' = e
    /\ pc' = "adjacent"
    /\ requests' = Append(requests, AdjacentRequest(entityId))
    /\ UNCHANGED <<entityId, primaryFailure, adjAttempt, adjacent, captionMap, writes,
                   relationshipEntries, unresolvedIds, resolveIdx, cachedAtResolve,
                   resolutions, relationships, error>>
    /\ UNCHANGED <<rateVars, classifyVars, mergeVars, extractVars, laterVars>>

PrimaryOk ==
    /\ pc = "primary"
    /\ \E e \in PrimaryEntities(entityId) : PrimaryOkWith(e)

\* The working state a call starts the seeding with.
EmptyWork == [cm |-> EmptyMap, writes |-> <<>>, entries |-> <<>>,
              unresolved |-> <<>>, threw |-> FALSE]

\* Seeding and first pass over a working set.
FirstPass(merged, id, caption) ==
    ClassifyFrom(merged, 1, id, SeedFrom(merged, 1, CaptionSet(EmptyWork, id, caption)))

\* From the return of getAdjacent to the next await or the return:
\* merge, seed the caption map, first pass, and then either the first
\* follow-up getEntity or, when nothing is unresolved, the second pass.
AfterAdjacent(adj0) ==
    \E merged \in {MergeNested(adj0, entity.nested, 1)} :
    \E st \in {FirstPass(merged, entityId, entity.caption)} :
       /\ adjacent' = merged
       /\ captionMap' = st.cm
       /\ writes' = st.writes
       /\ relationshipEntries' = st.entries
       /\ unresolvedIds' = st.unresolved
       /\ cachedAtResolve' = DOMAIN st.cm
       /\ UNCHANGED resolutions
       /\ IF st.threw
          THEN /\ pc' = "failed"
               /\ error' = "TypeError"
               /\ UNCHANGED <<resolveIdx, relationships, requests>>
          ELSE IF Len(st.unresolved) = 0
          THEN /\ pc' = "done"
               /\ relationships' = SecondPass(st.entries, 1, st.cm, EmptyBuckets)
               /\ UNCHANGED <<resolveIdx, error, requests>>
          ELSE /\ pc' = "resolve"
               /\ resolveIdx' = 1
               /\ requests' = Append(requests, EntityRequest(st.unresolved[1]))
               /\ UNCHANGED <<relationships, error>>

\* A plausible bug: only the first group is returned.
FlattenFirstOnly(groups, k) == IF Len(groups) = 0 THEN <<>> ELSE groups[1]

\* getAdjacent: the value it returns for a response of the grouped shape
\* { adjacent: { prop: { results: [...] } } }: all groups, flattened.
RECURSIVE Flatten(_, _)
Flatten(groups, k) == IF k > Len(groups) THEN <<>> ELSE groups[k] \o Flatten(groups, k + 1)

\* getAdjacent: what its catch block returns
GetAdjacentOnError == <<>>

\* The adjacency responses: one or two groups of records, `room` records
\* at most.
AdjacentGroups(room) ==
    {<<g>> : g \in SeqsUpTo(RecordPool, room)}
    \cup {<<<<r>>, <<s>>>> : r \in {x \in RecordPool : room >= 2}, s \in RecordPool}

\* getAdjacent resolves with the records of `groups`.
AdjacentOkWith(groups) ==
    /\ pc = "adjacent"
    /\ AfterAdjacent(Flatten(groups, 1))
    /\ adjAttempt' = "list"
    /\ UNCHANGED <<entityId, entity, primaryFailure>>
    /\ UNCHANGED <<rateVars, classifyVars, mergeVars, extractVars, laterVars>>

AdjacentOk ==
    /\ pc = "adjacent"
    /\ \E groups \in AdjacentGroups(MaxRecs - Len(entity.nested)) : AdjacentOkWith(groups)

\* The adjacency request rejects: getAdjacent catches and returns [].
AdjacentFails ==
    /\ pc = "adjacent"
    /\ \E f \in Failures : AfterAdjacent(GetAdjacentOnError)
    /\ adjAttempt' = "empty-on-error"
    /\ UNCHANGED <<entityId, entity, primaryFailure>>
    /\ UNCHANGED <<rateVars, classifyVars, mergeVars, extractVars, laterVars>>

\* A plausible bug: the loop ends after the first lookup.
AfterResolveOnlyFirst(cm) ==
    /\ pc' = "done"
    /\ relationships' = SecondPass(relationshipEntries, 1, cm, EmptyBuckets)
    /\ UNCHANGED <<resolveIdx, requests>>

\* A plausible bug: the buckets are filled after each lookup.
AfterResolveEager(cm) ==
    /\ relationships' = SecondPass(relationshipEntries, 1, cm, EmptyBuckets)
    /\ IF resolveIdx < Len(unresolvedIds)
       THEN /\ pc' = "resolve"
            /\ resolveIdx' = resolveIdx + 1
            /\ requests' = Append(requests, EntityRequest(unresolvedIds[resolveIdx + 1]))
       ELSE /\ pc' = "done"
            /\ UNCHANGED <<resolveIdx, requests>>

\* A plausible bug: a lookup that left its identifier unmapped is made once
\* more.
AfterResolveRetries(cm) ==
    IF /\ unresolvedIds[resolveIdx] \notin DOMAIN cm
       /\ requests[Len(requests)] # requests[Len(requests) - 1]
    THEN /\ pc' = "resolve"
         /\ requests' = Append(requests, EntityRequest(unresolvedIds[resolveIdx]))
         /\ UNCHANGED <<resolveIdx, relationships>>
    ELSE IF resolveIdx < Len(unresolvedIds)
    THEN /\ pc' = "resolve"
         /\ resolveIdx' = resolveIdx + 1
         /\ requests' = Append(requests, EntityRequest(unresolvedIds[resolveIdx + 1]))
         /\ UNCHANGED relationships
    ELSE /\ pc' = "done"
         /\ relationships' = SecondPass(relationshipEntries, 1, cm, EmptyBuckets)
         /\ UNCHANGED <<resolveIdx, requests>>

\* After a follow-up getEntity settled: the next one, or the second pass.
AfterResolve(cm) ==
    IF resolveIdx < Len(unresolvedIds)
    THEN /\ pc' = "resolve"
         /\ resolveIdx' = resolveIdx + 1
         /\ requests' = Append(requests, EntityRequest(unresolvedIds[resolveIdx + 1]))
         /\ UNCHANGED relationships
    ELSE /\ pc' = "done"
         /\ relationships' = SecondPass(relationshipEntries, 1, cm, EmptyBuckets)
         /\ UNCHANGED <<resolveIdx, requests>>

\* The follow-up getEntity resolves with a record whose caption is c.
ResolveOk ==
    /\ pc = "resolve"
    /\ \E c \in Captions \cup {Null} :
       LET targetId == unresolvedIds[resolveIdx]
           cm == IF c # Null THEN MapSet(captionMap, targetId, c) ELSE captionMap
       IN /\ captionMap' = cm
          /\ writes' = IF c # Null THEN Append(writes, [id |-> targetId, caption |-> c])
                       ELSE writes
          /\ resolutions' = Append(resolutions, [id |-> targetId, outcome |-> c])
          /\ AfterResolve(cm)
    /\ UNCHANGED <<entityId, entity, primaryFailure, adjAttempt, adjacent,
                   relationshipEntries, unresolvedIds, cachedAtResolve, error>>
    /\ UNCHANGED <<rateVars, classifyVars, mergeVars, extractVars, laterVars>>

\* The follow-up getEntity rejects: caught, the identifier stays unmapped.
ResolveFails ==
    /\ pc = "resolve"
    /\ \E f \in Failures : AfterResolve(captionMap)
    /\ resolutions' = Append(resolutions, [id |-> unresolvedIds[resolveIdx], outcome |-> "failed"])
    /\ UNCHANGED <<entityId, entity, primaryFailure, adjAttempt, adjacent, captionMap, writes,
                   relationshipEntries, unresolvedIds, cachedAtResolve, error>>
    /\ UNCHANGED <<rateVars, classifyVars, mergeVars, extractVars, laterVars>>

\* ------------------------------------------------------- the rate limiter

minRequestInterval == 100

\* Bounds: the clock starts at Epoch (Date.now() is far from 0), advances in
\* steps of TickMs up to MaxTime; MaxIssued requests are made at most.
Epoch == 1000
TickMs == 50
MaxTime == 1300
MaxIssued == 4

Callers == {"c1", "c2", "c3"}

\* The keys the settings hold, one after the other.
ApiKeys == {"k1", "k2"}

\* if (this.apiKey) headers['Authorization'] = `ApiKey ${this.apiKey}`
AuthorizationHeader(k) ==
    IF k = "" THEN [scheme |-> "none", key |-> ""] ELSE [scheme |-> "ApiKey", key |-> k]

RateInit ==
    /\ now = Epoch
    /\ lastRequestTime = 0
    /\ rpc = [c \in Callers |-> "idle"]
    /\ wakeAt = [c \in Callers |-> 0]
    /\ issued = <<>>
    /\ apiKey = "k1"
    /\ keyAtCall = [c \in Callers |-> Null]
    /\ sent = <<>>

\* updateApiKey(k)
UpdateApiKey(k) ==
    /\ apiKey' = k
    /\ UNCHANGED <<now, lastRequestTime, rpc, wakeAt, issued, keyAtCall, sent>>
    /\ UNCHANGED <<enrichVars, classifyVars, mergeVars, extractVars, laterVars>>

\* rateLimit: the delay it awaits (0: it does not await)
RateLimitDelay(t, last) ==
    IF t - last < minRequestInterval THEN minRequestInterval - (t - last) ELSE 0

\* makeRequest up to its first await: rateLimit either sleeps, or stamps
\* lastRequestTime and the request goes out.
MakeRequest(c) ==
    /\ rpc[c] = "idle"
    /\ Len(issued) + Cardinality({d \in Callers : rpc[d] = "sleeping"}) < MaxIssued
    /\ IF RateLimitDelay(now, lastRequestTime) > 0
       THEN /\ rpc' = [rpc EXCEPT ![c] = "sleeping"]
            /\ wakeAt' = [wakeAt EXCEPT ![c] = now + RateLimitDelay(now, lastRequestTime)]
            /\ keyAtCall' = [keyAtCall EXCEPT ![c] = apiKey]
            /\ UNCHANGED <<lastRequestTime, issued, sent>>
       ELSE /\ rpc' = [rpc EXCEPT ![c] = "inflight"]
            /\ lastRequestTime' = now
            /\ issued' = Append(issued, now)
            /\ sent' = Append(sent, [configured |-> apiKey,
                                     header |-> AuthorizationHeader(apiKey)])
            /\ UNCHANGED <<wakeAt, keyAtCall>>
    /\ UNCHANGED <<now, apiKey>>
    /\ UNCHANGED <<enrichVars, classifyVars, mergeVars, extractVars, laterVars>>

\* The setTimeout of a sleeping caller fires: lastRequestTime = Date.now(),
\* the headers are built from this.apiKey, and the request goes out.
TimerFires(c) ==
    /\ rpc[c] = "sleeping"
    /\ now >= wakeAt[c]
    /\ rpc' = [rpc EXCEPT ![c] = "inflight"]
    /\ lastRequestTime' = now
    /\ issued' = Append(issued, now)
    /\ sent' = Append(sent, [configured |-> keyAtCall[c],
                             header |-> AuthorizationHeader(apiKey)])
    /\ keyAtCall' = [keyAtCall EXCEPT ![c] = Null]
    /\ wakeAt' = [wakeAt EXCEPT ![c] = 0]
    /\ UNCHANGED <<now, apiKey>>
    /\ UNCHANGED <<enrichVars, classifyVars, mergeVars, extractVars, laterVars>>

\* requestUrl settles: the caller may make its next request.
RequestSettles(c) ==
    /\ rpc[c] = "inflight"
    /\ rpc' = [rpc EXCEPT ![c] = "idle"]
    /\ UNCHANGED <<now, lastRequestTime, wakeAt, issued, apiKey, keyAtCall, sent>>
    /\ UNCHANGED <<enrichVars, classifyVars, mergeVars, extractVars, laterVars>>

Tick ==
    /\ now + TickMs <= MaxTime
    /\ now' = now + TickMs
    /\ UNCHANGED <<lastRequestTime, rpc, wakeAt, issued, apiKey, keyAtCall, sent>>
    /\ UNCHANGED <<enrichVars, classifyVars, mergeVars, extractVars, laterVars>>

\* ------------------------------------------- one record, seeded and classified

\* Bound: the length of a role property's value list.
MaxVals == 2

ClassifyValues == {StrVal("X"), StrVal("Y"), ObjVal("X", "a"), ObjVal("Y", "b"), JunkVal}
ClassifyProps == {Undef, NonList} \cup {List(s) : s \in SeqsUpTo(ClassifyValues, MaxVals)}
ClassifyRecords ==
    {Rec("r1", s, Null, a, b) :
        s \in RelationshipSchemas \cup OtherSchemas, a \in ClassifyProps, b \in ClassifyProps}
    \cup {BareRec("r1", s, Null) : s \in RelationshipSchemas \cup OtherSchemas}

ClassifyIdle ==
    /\ cPhase = "off"
    /\ cRec = Null
    /\ cAnchor = Null
    /\ cOut = Null
    /\ cCache = EmptyMap
    /\ cAgain = Null

\* States of the caption map a later classification may meet.
CaptionMaps ==
    {EmptyMap, [x \in {"Y"} |-> "b"], [x \in {"X", "Y"} |-> "a"]}

\* fetchWithRelationships from the seeding to the end of the first pass, on
\* a working set of the one record cRec.
ClassifyOne ==
    /\ cPhase = "input"
    /\ cPhase' = "classified"
    /\ cOut' = FirstPass(<<cRec>>, cAnchor, "a")
    /\ UNCHANGED <<cRec, cAnchor, cCache, cAgain>>
    /\ UNCHANGED <<enrichVars, rateVars, mergeVars, extractVars, laterVars>>

\* The switch of the first pass on the same record and anchor once more,
\* the caption map being in any state.
ClassifyAgain ==
    /\ cPhase = "classified"
    /\ cPhase' = "again"
    /\ \E cm \in CaptionMaps :
          /\ cCache' = cm
          /\ cAgain' = ClassifyRecord(cRec, cAnchor, [EmptyWork EXCEPT !.cm = cm])
    /\ UNCHANGED <<cRec, cAnchor, cOut>>
    /\ UNCHANGED <<enrichVars, rateVars, mergeVars, extractVars, laterVars>>

\* ------------------------------ one adjacency response, flattened and merged

\* Two copies, told apart by their caption, of each relationship record.
MergePool ==
    {Rec(i, "Ownership", c, List(<<StrVal("X")>>), List(<<StrVal("Y")>>)) :
        i \in RelIds, c \in Captions}

\* The adjacency response: up to MaxRecs property groups of at most one
\* record each.
MergeGroups == SeqsUpTo(SeqsUpTo(MergePool, 1), MaxRecs)

MergeIdle ==
    /\ mPhase = "off"
    /\ mGroups = <<>>
    /\ mNested = <<>>
    /\ mOut = <<>>

\* getAdjacent's flattening of the groups, and fetchWithRelationships'
\* merge of the embedded records behind them: the working set.
MergeOne ==
    /\ mPhase = "input"
    /\ mPhase' = "merged"
    /\ mOut' = MergeNested(Flatten(mGroups, 1), mNested, 1)
    /\ UNCHANGED <<mGroups, mNested>>
    /\ UNCHANGED <<enrichVars, rateVars, classifyVars, extractVars, laterVars>>

\* ------------------------------------- one value list, extractFirstTarget

\* Bound: the length of the value list.
MaxList == 3

ExtractIdle ==
    /\ xPhase = "off"
    /\ xValues = Undef
    /\ xOut = [id |-> Null, cm |-> EmptyMap]

\* extractFirstTarget(values, captionMap) on an empty caption map
ExtractOne ==
    /\ xPhase = "input"
    /\ xPhase' = "extracted"
    /\ xOut' = [id |-> FirstTargetId(xValues), cm |-> FirstTargetSeed(xValues, EmptyWork).cm]
    /\ UNCHANGED xValues
    /\ UNCHANGED <<enrichVars, rateVars, classifyVars, mergeVars, laterVars>>

\* ------------------------------------------ one response, through getAdjacent

\* A property group of the grouped response; its `results` is an array, or
\* it is missing or something else.
Group(r) == [isArray |-> TRUE, results |-> r]
GroupWithoutResults == [isArray |-> FALSE, results |-> <<>>]

\* What `await this.makeRequest(...)` comes to in getAdjacent:
\*   "rejected"      makeRequest throws (endpoint unavailable)
\*   "null"          the body is null: reading response.adjacent raises
\*   "grouped"       { adjacent: { prop: { results: [...] }, ... } }
\*   "array"         the body is an array of records
\*   "results"       { results: [...] }
\*   "resultsValue"  { results: v }, v truthy and no array
\*   "other"         an object with neither `adjacent` nor `results`
Response(shape, groups, items) == [shape |-> shape, groups |-> groups, items |-> items]

AdjacentResponses ==
    {Response(sh, <<>>, <<>>) : sh \in {"rejected", "null", "resultsValue", "other"}}
    \cup {Response("grouped", g, <<>>) :
              g \in SeqsUpTo({GroupWithoutResults} \cup {Group(r) : r \in SeqsUpTo(MergePool, 1)},
                             MaxRecs)}
    \cup {Response(sh, <<>>, i) : sh \in {"array", "results"}, i \in SeqsUpTo(MergePool, MaxRecs)}

\* if (Array.isArray(results)) allEntities.push(...results)
GroupResults(groups) ==
    [k \in 1..Len(groups) |-> IF groups[k].isArray THEN groups[k].results ELSE <<>>]

\* getAdjacent: how it ends (threw: it rejects) and the value it returns
\* (isArray: whether that value is an array).
Returned(items) == [threw |-> FALSE, isArray |-> TRUE, items |-> items]

GetAdjacent(resp) ==
    CASE resp.shape = "grouped" -> Returned(Flatten(GroupResults(resp.groups), 1))
      [] resp.shape = "array" -> Returned(resp.items)
      [] resp.shape = "results" -> Returned(resp.items)
      [] resp.shape = "resultsValue" -> [threw |-> FALSE, isArray |-> FALSE, items |-> <<>>]
      [] resp.shape \in {"rejected", "null"} -> Returned(GetAdjacentOnError)
      [] OTHER -> Returned(<<>>)

AdjIdle ==
    /\ gPhase = "off"
    /\ gResponse = Response("other", <<>>, <<>>)
    /\ gOut = Returned(<<>>)

GetAdjacentOne ==
    /\ gPhase = "input"
    /\ gPhase' = "returned"
    /\ gOut' = GetAdjacent(gResponse)
    /\ UNCHANGED gResponse
    /\ UNCHANGED adjOthers

\* ------------------------------------ import: the click and the handler

\* Bound: the entities selected for one import.
MaxSelected == 2

ImportSchemas == {"Person", "Company"}
FieldConfigValues == {"cfgA", "cfgB"}

\* The search results that can be selected, and the selections: the
\* results whose id is selected, in the order of the results.
SelectableResults == <<[id |-> "e1", schema |-> "Person"], [id |-> "e2", schema |-> "Company"],
                       [id |-> "e3", schema |-> "Person"]>>
Selections ==
    {sel \in SeqsUpTo({SelectableResults[k] : k \in 1..Len(SelectableResults)}, MaxSelected) :
        /\ sel # <<>>
        /\ \A i, j \in 1..Len(sel) :
              i < j => \E a, b \in 1..Len(SelectableResults) :
                          a < b /\ SelectableResults[a] = sel[i] /\ SelectableResults[b] = sel[j]}

ImportIdle ==
    /\ iMode = "standard"
    /\ rememberLastConfig = TRUE
    /\ fieldConfigs = [s \in ImportSchemas |-> "cfgA"]
    /\ lastUsedFieldConfigs = [s \in ImportSchemas |-> Null]
    /\ selectedResults = <<>>
    /\ tempConfigs = [s \in ImportSchemas |-> "cfgA"]
    /\ hpc = "idle"
    /\ hIdx = 0
    /\ generated = <<>>
    /\ attempts = <<>>
    /\ notices = <<>>

SchemasOf(sel) == {sel[k].schema : k \in 1..Len(sel)}

\* quickImportSelected: the configurations it puts in place before it calls
\* onSelect.
TemporaryConfigs(sel) ==
    [s \in ImportSchemas |->
        IF rememberLastConfig /\ s \in SchemasOf(sel) /\ lastUsedFieldConfigs[s] # Null
        THEN lastUsedFieldConfigs[s]
        ELSE fieldConfigs[s]]

\* handleEntitySelection from its call to its first await: the
\* NoteGenerator is made on the settings object, and fetchWithRelationships
\* is called for the first entity.
HandlerStarts(sel) ==
    /\ selectedResults' = sel
    /\ hpc' = "enrich"
    /\ hIdx' = 1
    /\ UNCHANGED <<generated, attempts, notices>>

\* quickImportSelected: temporary configurations, onSelect (which returns at
\* the handler's first await), and the restore of the `finally`.
QuickImportSelected ==
    /\ hpc = "idle"
    /\ iMode = "quick"
    /\ \E sel \in Selections :
          /\ tempConfigs' = TemporaryConfigs(sel)
          /\ HandlerStarts(sel)
    /\ fieldConfigs' = fieldConfigs
    /\ UNCHANGED <<iMode, rememberLastConfig, lastUsedFieldConfigs>>
    /\ UNCHANGED importOthers

\* importSelected: trackConfigUsage, then onSelect.
ImportSelected ==
    /\ hpc = "idle"
    /\ iMode = "standard"
    /\ \E sel \in Selections :
          /\ lastUsedFieldConfigs' =
                [s \in ImportSchemas |->
                    IF s \in SchemasOf(sel) THEN fieldConfigs[s] ELSE lastUsedFieldConfigs[s]]
          /\ HandlerStarts(sel)
    /\ tempConfigs' = fieldConfigs
    /\ UNCHANGED <<iMode, rememberLastConfig, fieldConfigs>>
    /\ UNCHANGED importOthers

\* After the loop the handler calls this.saveSettings(); it was handed over
\* unbound and is called on the modal, which has no such method: the
\* handler's promise rejects.
HandlerNextEntity ==
    IF hIdx < Len(selectedResults)
    THEN /\ hpc' = "enrich"
         /\ hIdx' = hIdx + 1
    ELSE /\ hpc' = "rejected"
         /\ UNCHANGED hIdx

\* A plausible bug: an error ends the loop.
OnEntityErrorAborts ==
    /\ hpc' = "rejected"
    /\ UNCHANGED hIdx

\* The catch of the loop body: a Notice, and on to the next entity.
OnEntityError == HandlerNextEntity

Notice(kind, id) == [kind |-> kind, id |-> id]
Attempt(id, enriched, created) == [id |-> id, enriched |-> enriched, created |-> created]

\* fetchWithRelationships resolves; generateNote begins and reads
\* settings.fieldConfigs[entity.schema] for the frontmatter.
EnrichOk ==
    /\ hpc = "enrich"
    /\ hpc' = "note"
    /\ generated' = Append(generated, [id |-> selectedResults[hIdx].id,
                                       schema |-> selectedResults[hIdx].schema,
                                       config |-> fieldConfigs[selectedResults[hIdx].schema]])
    /\ UNCHANGED <<iMode, rememberLastConfig, fieldConfigs, lastUsedFieldConfigs,
                   selectedResults, tempConfigs, hIdx, attempts, notices>>
    /\ UNCHANGED importOthers

EnrichFails ==
    /\ hpc = "enrich"
    /\ attempts' = Append(attempts, Attempt(selectedResults[hIdx].id, FALSE, FALSE))
    /\ notices' = Append(notices, Notice("error", selectedResults[hIdx].id))
    /\ OnEntityError
    /\ UNCHANGED <<iMode, rememberLastConfig, fieldConfigs, lastUsedFieldConfigs,
                   selectedResults, tempConfigs, generated>>
    /\ UNCHANGED importOthers

\* generateNote resolves: the note is in the vault.
NoteOk ==
    /\ hpc = "note"
    /\ attempts' = Append(attempts, Attempt(selectedResults[hIdx].id, TRUE, TRUE))
    /\ notices' = Append(notices, Notice("created", selectedResults[hIdx].id))
    /\ HandlerNextEntity
    /\ UNCHANGED <<iMode, rememberLastConfig, fieldConfigs, lastUsedFieldConfigs,
                   selectedResults, tempConfigs, generated>>
    /\ UNCHANGED importOthers

NoteFails ==
    /\ hpc = "note"
    /\ attempts' = Append(attempts, Attempt(selectedResults[hIdx].id, TRUE, FALSE))
    /\ notices' = Append(notices, Notice("error", selectedResults[hIdx].id))
    /\ OnEntityError
    /\ UNCHANGED <<iMode, rememberLastConfig, fieldConfigs, lastUsedFieldConfigs,
                   selectedResults, tempConfigs, generated>>
    /\ UNCHANGED importOthers

\* ------------------------------------ RelationshipProcessor: entity cache

\* The processEntityRelationships calls under way, and the identifiers
\* their relationship records point to.
Processors == {"p1", "p2"}
TargetIds == {"Y", "W"}

NoLookup == [pc |-> "idle", id |-> Null, result |-> Null]

CacheIdle ==
    /\ entityCache = EmptyMap
    /\ lookup = [p \in Processors |-> NoLookup]
    /\ requestsSinceClear = [i \in TargetIds |-> 0]

\* getEntityWithCache(id), the cache has the identifier: it returns the
\* cached value (null for a cached failure).
CacheHit(p, id) ==
    /\ lookup[p].pc = "idle"
    /\ id \in DOMAIN entityCache
    /\ lookup' = [lookup EXCEPT ![p] = [pc |-> "idle", id |-> id, result |-> entityCache[id]]]
    /\ UNCHANGED <<entityCache, requestsSinceClear>>
    /\ UNCHANGED cacheOthers

\* getEntityWithCache(id), the cache has not: up to `await getEntity(id)`.
CacheMiss(p, id) ==
    /\ lookup[p].pc = "idle"
    /\ id \notin DOMAIN entityCache
    /\ lookup' = [lookup EXCEPT ![p] = [pc |-> "waiting", id |-> id, result |-> Null]]
    /\ requestsSinceClear' = [requestsSinceClear EXCEPT ![id] = @ + 1]
    /\ UNCHANGED entityCache
    /\ UNCHANGED cacheOthers

\* getEntity resolves: the entity is cached and returned.
LookupOk(p) ==
    /\ lookup[p].pc = "waiting"
    /\ entityCache' = MapSet(entityCache, lookup[p].id, "entity")
    /\ lookup' = [lookup EXCEPT ![p] = [pc |-> "idle", id |-> lookup[p].id, result |-> "entity"]]
    /\ UNCHANGED requestsSinceClear
    /\ UNCHANGED cacheOthers

\* getEntity rejects: null is cached and returned.
LookupFails(p) ==
    /\ lookup[p].pc = "waiting"
    /\ entityCache' = MapSet(entityCache, lookup[p].id, Null)
    /\ lookup' = [lookup EXCEPT ![p] = [pc |-> "idle", id |-> lookup[p].id, result |-> Null]]
    /\ UNCHANGED requestsSinceClear
    /\ UNCHANGED cacheOthers

\* clearCache()
ClearCache ==
    /\ entityCache' = EmptyMap
    /\ requestsSinceClear' = [i \in TargetIds |-> 0]
    /\ UNCHANGED lookup
    /\ UNCHANGED cacheOthers

\* ------------------------------------- NoteGenerator: createNoteWithContent

MaxCopies == 2
MaxNotes == 2

File(c) == [kind |-> "file", content |-> c]
Folder == [kind |-> "folder", content |-> Null]

NoteContents == {"c1", "c2"}

\* What the notes folder may hold before the plugin writes to it.
Vaults ==
    UNION {[paths -> {File("old"), Folder}] : paths \in SUBSET (0..MaxCopies)}

NoteIdle ==
    /\ vault = EmptyMap
    /\ folderPresent = FALSE
    /\ overwriteExisting = FALSE
    /\ npc = "idle"
    /\ nContent = Null
    /\ nPath = Null
    /\ nOutcome = Null
    /\ nRead = FALSE
    /\ nBefore = EmptyMap
    /\ nCalls = 0

\* the `while` of findUniqueFilename
RECURSIVE NextFree(_, _)
NextFree(v, counter) ==
    IF counter \in DOMAIN v THEN NextFree(v, counter + 1) ELSE counter

FindUniqueFilenameFromTwo(v) == NextFree(v, 2)

FindUniqueFilename(v) == NextFree(v, 1)

\* vault.create(path, content): it throws when the path is taken.
CreateAt(path) ==
    /\ nPath' = path
    /\ IF path \in DOMAIN vault
       THEN vault' = vault /\ nOutcome' = "threw"
       ELSE vault' = MapSet(vault, path, File(nContent)) /\ nOutcome' = "created"

\* createNoteWithContent(entity, content), up to `await ensureFolderExists`.
CreateNoteWithContent(c) ==
    /\ npc \in {"idle", "done"}
    /\ nCalls < MaxNotes
    /\ nCalls' = nCalls + 1
    /\ nContent' = c
    /\ nBefore' = vault
    /\ nPath' = Null
    /\ nOutcome' = Null
    /\ folderPresent' = TRUE
    /\ npc' = "ensured"
    /\ UNCHANGED <<vault, overwriteExisting, nRead>>
    /\ UNCHANGED noteOthers

\* From the look-up of the target path to the next await: vault.modify,
\* vault.create, or the search for a numbered copy.
NoteCheck ==
    /\ npc = "ensured"
    /\ nRead' = overwriteExisting
    /\ IF 0 \in DOMAIN vault /\ vault[0].kind = "file"
       THEN IF overwriteExisting
            THEN /\ vault' = MapSet(vault, 0, File(nContent))
                 /\ nPath' = 0
                 /\ nOutcome' = "modified"
                 /\ npc' = "done"
            ELSE /\ nPath' = FindUniqueFilename(vault)
                 /\ npc' = "found"
                 /\ UNCHANGED <<vault, nOutcome>>
       ELSE /\ CreateAt(0)
            /\ npc' = "done"
    /\ UNCHANGED <<folderPresent, overwriteExisting, nContent, nBefore, nCalls>>
    /\ UNCHANGED noteOthers

\* vault.create(numberedPath, content)
NumberedCreate ==
    /\ npc = "found"
    /\ CreateAt(nPath)
    /\ npc' = "done"
    /\ UNCHANGED <<folderPresent, overwriteExisting, nContent, nBefore, nRead, nCalls>>
    /\ UNCHANGED noteOthers

\* The "Overwrite Existing Notes" toggle.
SetOverwriteExisting(value) ==
    /\ value # overwriteExisting
    /\ overwriteExisting' = value
    /\ UNCHANGED <<vault, folderPresent, npc, nContent, nPath, nOutcome, nRead, nBefore, nCalls>>
    /\ UNCHANGED noteOthers

\* ------------------------------------ SearchModal: performSearch, loadMore

PageSize == 20
MaxRequests == 5

\* what the search input may hold, and how many matches the server may have
Queries == {"", "acme"}
ServerTotals == {0, 20, 45}

\* The page of a result list of `total` entries that starts at `offset`.
Page(offset, total) ==
    [i \in 1..(IF total - offset < PageSize
               THEN (IF total > offset THEN total - offset ELSE 0)
               ELSE PageSize) |-> offset + i - 1]

RemoveAt(seq, i) == SubSeq(seq, 1, i - 1) \o SubSeq(seq, i + 1, Len(seq))

NoSnapshot == [results |-> <<>>, next |-> 0]

SearchIdle ==
    /\ isLoading = FALSE
    /\ currentOffset = 0
    /\ paramsOffset = 0
    /\ searchResults = <<>>
    /\ totalResults = 0
    /\ inFlight = <<>>
    /\ sRequested = <<>>
    /\ sBefore = NoSnapshot
    /\ sEvent = "opened"

\* a handler that returns at its guard
Returns(event) ==
    /\ sEvent' = event
    /\ UNCHANGED <<isLoading, currentOffset, paramsOffset, searchResults,
                   totalResults, inFlight, sRequested, sBefore>>

\* up to `await this.apiClient.search(this.currentSearchParams)`
Requests(kind, offset) ==
    /\ isLoading' = TRUE
    /\ currentOffset' = offset
    /\ paramsOffset' = offset
    /\ inFlight' = Append(inFlight, [kind |-> kind, offset |-> offset])
    /\ sRequested' = Append(sRequested, offset)
    /\ sEvent' = kind

PerformSearchWhileLoading(query) ==
    /\ Len(sRequested) < MaxRequests
    /\ IF query = ""
       THEN Returns("empty query")
       ELSE /\ Requests("search", 0)
            /\ UNCHANGED <<searchResults, totalResults, sBefore>>
    /\ UNCHANGED searchOthers

\* performSearch(), to its first await
PerformSearch(query) ==
    /\ Len(sRequested) < MaxRequests
    /\ IF isLoading
       THEN Returns("ignored")
       ELSE IF query = ""
            THEN Returns("empty query")
            ELSE /\ Requests("search", 0)
                 /\ UNCHANGED <<searchResults, totalResults, sBefore>>
    /\ UNCHANGED searchOthers

\* loadMore(), to its first await
LoadMore ==
    /\ Len(sRequested) < MaxRequests
    /\ IF isLoading \/ Len(searchResults) >= totalResults
       THEN Returns("ignored")
       ELSE /\ Requests("more", currentOffset + PageSize)
            /\ sBefore' = [results |-> searchResults, next |-> currentOffset + PageSize]
            /\ UNCHANGED <<searchResults, totalResults>>
    /\ UNCHANGED searchOthers

\* The `finally` of both handlers.
Settles(i, event) ==
    /\ inFlight' = RemoveAt(inFlight, i)
    /\ isLoading' = FALSE
    /\ sEvent' = event
    /\ UNCHANGED <<currentOffset, paramsOffset, sRequested, sBefore>>

\* performSearch: the search resolves
SearchOk(i, total) ==
    /\ i \in 1..Len(inFlight)
    /\ inFlight[i].kind = "search"
    /\ searchResults' = Page(inFlight[i].offset, total)
    /\ totalResults' = total
    /\ Settles(i, "search done")
    /\ UNCHANGED searchOthers

\* performSearch: the search rejects
SearchFails(i) ==
    /\ i \in 1..Len(inFlight)
    /\ inFlight[i].kind = "search"
    /\ Settles(i, "search failed")
    /\ UNCHANGED <<searchResults, totalResults>>
    /\ UNCHANGED searchOthers

\* loadMore: the search resolves
LoadMoreOk(i) ==
    /\ i \in 1..Len(inFlight)
    /\ inFlight[i].kind = "more"
    /\ searchResults' = searchResults \o Page(inFlight[i].offset, totalResults)
    /\ Settles(i, "more done")
    /\ UNCHANGED totalResults
    /\ UNCHANGED searchOthers

\* loadMore: the search rejects
LoadMoreFails(i) ==
    /\ i \in 1..Len(inFlight)
    /\ inFlight[i].kind = "more"
    /\ Settles(i, "more failed")
    /\ UNCHANGED <<searchResults, totalResults>>
    /\ UNCHANGED searchOthers

\* The other components, not started.
LaterIdle == AdjIdle /\ ImportIdle /\ CacheIdle /\ NoteIdle /\ SearchIdle

\* --------------------------------------------------------- specifications

\* One fetchWithRelationships call, its responses drawn from the pools.
ClientIdle == EnrichInit /\ RateInit /\ ClassifyIdle /\ MergeIdle /\ ExtractIdle

Init == ClientIdle /\ LaterIdle

Next ==
    \/ \E id \in AnchorIds : Call(id)
    \/ PrimaryFails
    \/ PrimaryOk
    \/ AdjacentOk
    \/ AdjacentFails
    \/ ResolveOk
    \/ ResolveFails

Spec == Init /\ [][Next]_vars

\* The same, where every request made is answered: the awaited getEntity
\* and getAdjacent settle, with a result or with a failure.
\* The responses are drawn from fewer records: two that name Y, one that
\* names W, one with an embedded object, one without a property bag.
LivePool ==
    {Rec(i, "Ownership", Null, List(<<StrVal("X")>>), List(<<StrVal("Y")>>)) : i \in RelIds}
    \cup {Rec("r1", "Ownership", Null, List(<<StrVal("X")>>), List(<<ObjVal("Z", "a")>>)),
          Rec("r2", "Ownership", Null, List(<<StrVal("X")>>), List(<<StrVal("W")>>)),
          BareRec("r2", "Ownership", Null)}

LiveEntities(id) ==
    {[id |-> id, caption |-> "a", nested |-> n] : n \in SeqsUpTo(LivePool, MaxRecs)}

LiveGroups(room) ==
    {<<g>> : g \in SeqsUpTo(LivePool, room)}
    \cup {<<<<r>>, <<s>>>> : r \in {x \in LivePool : room >= 2}, s \in LivePool}

PrimaryOkLive ==
    /\ pc = "primary"
    /\ \E e \in LiveEntities(entityId) : PrimaryOkWith(e)

AdjacentOkLive ==
    /\ pc = "adjacent"
    /\ \E groups \in LiveGroups(MaxRecs - Len(entity.nested)) : AdjacentOkWith(groups)

NextLive ==
    \/ \E id \in AnchorIds : Call(id)
    \/ PrimaryFails
    \/ PrimaryOkLive
    \/ AdjacentOkLive
    \/ AdjacentFails
    \/ ResolveOk
    \/ ResolveFails

SpecLive ==
    /\ Init
    /\ [][NextLive]_vars
    /\ WF_vars(PrimaryOkLive \/ PrimaryFails)
    /\ WF_vars(AdjacentOkLive \/ AdjacentFails)
    /\ WF_vars(ResolveOk \/ ResolveFails)

\* Callers of makeRequest, overlapping as they like.
NextRate ==
    \/ \E c \in Callers : MakeRequest(c)
    \/ \E c \in Callers : TimerFires(c)
    \/ \E c \in Callers : RequestSettles(c)
    \/ \E k \in ApiKeys : UpdateApiKey(k)
    \/ Tick

SpecRate == Init /\ [][NextRate]_vars

\* Every record of ClassifyRecords, classified relative to every anchor.
InitClassify ==
    /\ EnrichInit
    /\ RateInit
    /\ cPhase = "input"
    /\ cRec \in ClassifyRecords
    /\ cAnchor \in AnchorIds
    /\ cOut = Null
    /\ cCache = EmptyMap
    /\ cAgain = Null
    /\ MergeIdle
    /\ ExtractIdle
    /\ LaterIdle

NextClassify == ClassifyOne \/ ClassifyAgain

SpecClassify == InitClassify /\ [][NextClassify]_vars

\* Every adjacency response of MergeGroups, merged with every list of
\* embedded records.
InitMerge ==
    /\ EnrichInit
    /\ RateInit
    /\ ClassifyIdle
    /\ ExtractIdle
    /\ mPhase = "input"
    /\ mGroups \in MergeGroups
    /\ mNested \in SeqsUpTo(MergePool, MaxRecs)
    /\ mOut = <<>>
    /\ LaterIdle

NextMerge == MergeOne

SpecMerge == InitMerge /\ [][NextMerge]_vars

\* Every value list of up to MaxList values, and the absent property.
InitExtract ==
    /\ EnrichInit
    /\ RateInit
    /\ ClassifyIdle
    /\ MergeIdle
    /\ xPhase = "input"
    /\ xValues \in {Undef} \cup {List(v) : v \in SeqsUpTo(ClassifyValues, MaxList)}
    /\ xOut = [id |-> Null, cm |-> EmptyMap]
    /\ LaterIdle

NextExtract == ExtractOne

SpecExtract == InitExtract /\ [][NextExtract]_vars

\* Every response of AdjacentResponses, through getAdjacent.
InitAdjacent ==
    /\ ClientIdle
    /\ gPhase = "input"
    /\ gResponse \in AdjacentResponses
    /\ gOut = Returned(<<>>)
    /\ ImportIdle
    /\ CacheIdle
    /\ NoteIdle
    /\ SearchIdle

NextAdjacent == GetAdjacentOne

SpecAdjacent == InitAdjacent /\ [][NextAdjacent]_vars

\* One import, in either mode, under every setting of the configurations.
InitImport ==
    /\ ClientIdle
    /\ AdjIdle
    /\ CacheIdle
    /\ NoteIdle
    /\ SearchIdle
    /\ iMode \in {"standard", "quick"}
    /\ rememberLastConfig \in BOOLEAN
    /\ fieldConfigs \in [ImportSchemas -> FieldConfigValues]
    /\ lastUsedFieldConfigs \in [ImportSchemas -> FieldConfigValues \cup {Null}]
    /\ selectedResults = <<>>
    /\ tempConfigs = fieldConfigs
    /\ hpc = "idle"
    /\ hIdx = 0
    /\ generated = <<>>
    /\ attempts = <<>>
    /\ notices = <<>>

NextImport ==
    \/ QuickImportSelected
    \/ ImportSelected
    \/ EnrichOk
    \/ EnrichFails
    \/ NoteOk
    \/ NoteFails

SpecImport == InitImport /\ [][NextImport]_vars

\* processEntityRelationships calls, overlapping as they like, and
\* clearCache calls between them.
InitCache == ClientIdle /\ LaterIdle

NextCache ==
    \/ \E p \in Processors, i \in TargetIds : CacheHit(p, i)
    \/ \E p \in Processors, i \in TargetIds : CacheMiss(p, i)
    \/ \E p \in Processors : LookupOk(p)
    \/ \E p \in Processors : LookupFails(p)
    \/ ClearCache

SpecCache == InitCache /\ [][NextCache]_vars

\* createNoteWithContent calls, one after the other, on any notes folder.
InitNote ==
    /\ ClientIdle
    /\ AdjIdle
    /\ ImportIdle
    /\ CacheIdle
    /\ SearchIdle
    /\ vault \in Vaults
    /\ folderPresent \in {b \in BOOLEAN : vault # EmptyMap => b}
    /\ overwriteExisting \in BOOLEAN
    /\ npc = "idle"
    /\ nContent = Null
    /\ nPath = Null
    /\ nOutcome = Null
    /\ nRead = FALSE
    /\ nBefore = EmptyMap
    /\ nCalls = 0

NextNote ==
    \/ \E c \in NoteContents : CreateNoteWithContent(c)
    \/ NoteCheck
    \/ NumberedCreate
    \/ \E value \in BOOLEAN : SetOverwriteExisting(value)

SpecNote == InitNote /\ [][NextNote]_vars

\* The search modal: the user's triggers and the responses, in any order.
InitSearch == ClientIdle /\ LaterIdle

NextSearch ==
    \/ \E query \in Queries : PerformSearch(query)
    \/ LoadMore
    \/ \E i \in 1..MaxRequests, total \in ServerTotals : SearchOk(i, total)
    \/ \E i \in 1..MaxRequests : SearchFails(i)
    \/ \E i \in 1..MaxRequests : LoadMoreOk(i)
    \/ \E i \in 1..MaxRequests : LoadMoreFails(i)

SpecSearch == InitSearch /\ [][NextSearch]_vars

\* ------------------------------------------------------------ properties

\* The identifiers a role property's value list holds (bare or embedded).
RoleIds(p) ==
    IF p.shape = "list"
    THEN {p.vals[k].id : k \in {j \in 1..Len(p.vals) : p.vals[j].kind # "junk"}}
    ELSE {}

\* The identifier of the first value of a role property, Null when the list
\* is absent or empty or its first value carries no identifier.
FirstOf(p) ==
    IF p.shape = "list" /\ p.vals # <<>> /\ p.vals[1].kind # "junk" THEN p.vals[1].id ELSE Null

\* The record has a property bag and each role property is a list or absent.
WellFormed(rel) == rel.bag /\ rel.a.shape # "nonlist" /\ rel.b.shape # "nonlist"

AllBucketsEmpty == \A n \in BucketNames : relationships[n] = <<>>

\* C1: any two requests made through makeRequest go out at least
\* minRequestInterval apart, whatever the overlap of their callers.
C1_RequestsSpaced ==
    \A i, j \in 1..Len(issued) : i < j => issued[j] - issued[i] >= minRequestInterval

\* C2: within one call, once the caption map holds a caption for an
\* identifier no later captionMap.set changes it (first writer wins).
C2_FirstWriterWins ==
    \A i, j \in 1..Len(writes) :
        (i < j /\ writes[i].id = writes[j].id) => writes[j].caption = writes[i].caption

\* C3: when the primary getEntity fails, with whatever error, the call fails
\* with that error: no entity, no buckets, and no further request.
C3_PrimaryFailureIsFatal ==
    primaryFailure # NoFailure =>
        /\ pc = "failed"
        /\ error = MakeRequestError(primaryFailure)
        /\ entity = NoEntity
        /\ relationships = NoRelationships
        /\ requests = <<EntityRequest(entityId)>>

C3_Witness ==
    /\ pc = "failed"
    /\ primaryFailure.status = 500
    /\ error = "UpstreamFailure"

\* C4: when the primary fetch succeeded and the adjacency request failed,
\* getAdjacent returned [] and the call does not fail: it goes on with the
\* records embedded in the primary entity alone, and returns buckets.
C4_AdjacencyFailureNotFatal ==
    adjAttempt = "empty-on-error" =>
        /\ adjacent = MergeNested(<<>>, entity.nested, 1)
        /\ pc # "failed"
        /\ (entity.nested = <<>> => pc = "done" /\ AllBucketsEmpty)

\* C5: no relationship record of the working set, however malformed, makes
\* the call raise an error.
C5_NoRecordRaises == ~(pc = "failed" /\ primaryFailure = NoFailure)

\* The anchor occupies both role properties of the record and is the only
\* identifier in them.
OnlySelf(rel, id) == rel.bag /\ RoleIds(rel.a) = {id} /\ RoleIds(rel.b) = {id}

\* C6: a record, of any schema, whose only resolvable counterpart is the
\* anchor itself adds no entry to any bucket.
C6_NoSelfLoopEntry ==
    (pc = "done" /\ \A k \in 1..Len(adjacent) : OnlySelf(adjacent[k], entityId))
        => AllBucketsEmpty

\* The counterpart the record names for the anchor: the first value of the
\* other role property.
CounterpartOf(rel, id) ==
    IF id \in RoleIds(rel.a) THEN FirstOf(rel.b)
    ELSE IF id \in RoleIds(rel.b) THEN FirstOf(rel.a)
    ELSE Null

\* C7: a Family, Associate, Succession, UnknownLink or Representation
\* record whose counterpart is the anchor itself is dropped: it adds no
\* entry to any bucket.
C7_SymmetricSelfLoopDropped ==
    (/\ pc = "done"
     /\ \A k \in 1..Len(adjacent) :
           /\ adjacent[k].schema \in SymmetricSchemas \cup LinkSchemas
           /\ WellFormed(adjacent[k])
           /\ CounterpartOf(adjacent[k], entityId) = entityId)
        => AllBucketsEmpty

\* What the first pass made of the one record cRec.
Classified == cPhase = "classified"
Entry(type, targetId) == [type |-> type, targetId |-> targetId]

\* C8: for Succession, UnknownLink and Representation the direction follows
\* the membership of the anchor in the role lists: anchor anywhere in
\* subject gives related-to with the counterpart from object; otherwise
\* anchor anywhere in object gives related-to with the counterpart from
\* subject. (Stated for counterparts that exist and are not the anchor.)
C8_LinkDirectionByMembership ==
    (Classified /\ cRec.schema \in LinkSchemas /\ WellFormed(cRec)) =>
        LET t == CounterpartOf(cRec, cAnchor)
        IN (t # Null /\ t # cAnchor) => cOut.entries = <<Entry("relatedTo", t)>>

\* The rule table of the six directional and symmetric types, role a first.
\* selfLoops: whether a Family or Associate counterpart equal to the anchor
\* still makes an entry.
TableCategory(rel, id) ==
    IF id \in RoleIds(rel.a)
    THEN CASE rel.schema = "Directorship" -> "directorOf"
           [] rel.schema = "Ownership" -> "ownerOf"
           [] rel.schema = "Employment" -> "employeeOf"
           [] rel.schema = "Membership" -> "memberOf"
           [] rel.schema = "Family" -> "family"
           [] rel.schema = "Associate" -> "coConspirator"
    ELSE IF id \in RoleIds(rel.b)
    THEN CASE rel.schema = "Ownership" -> "ownedBy"
           [] rel.schema = "Family" -> "family"
           [] rel.schema = "Associate" -> "coConspirator"
           [] OTHER -> Null
    ELSE Null

TableEntries(rel, id, selfLoops) ==
    LET cat == TableCategory(rel, id)
        t == CounterpartOf(rel, id)
    IN IF cat = Null \/ t = Null THEN <<>>
       ELSE IF ~selfLoops /\ rel.schema \in SymmetricSchemas /\ t = id THEN <<>>
       ELSE <<Entry(cat, t)>>

TableSchemas == OneWaySchemas \cup {"Ownership"} \cup SymmetricSchemas

NoDuplicates(s) == \A i, j \in 1..Len(s) : i # j => s[i] # s[j]

\* C11: no bucket of the returned entity holds the same display name twice,
\* also when distinct records or distinct counterpart identifiers resolve to
\* that display name.
C11_NoDuplicateDisplayName ==
    pc = "done" => \A n \in BucketNames : NoDuplicates(relationships[n])

C11_Witness ==
    /\ pc = "done"
    /\ \E i, j \in 1..Len(relationshipEntries) :
          /\ relationshipEntries[i].type = relationshipEntries[j].type
          /\ relationshipEntries[i].targetId # relationshipEntries[j].targetId
          /\ DisplayName(captionMap, relationshipEntries[i].targetId)
                = DisplayName(captionMap, relationshipEntries[j].targetId)
          /\ Len(relationships[relationshipEntries[i].type]) = 1

\* C12: a classified counterpart whose follow-up getEntity failed, or
\* returned a record without a caption, is displayed as its raw identifier
\* in the bucket of each of its entries.
C12_FallbackIsRawId ==
    pc = "done" =>
        \A k \in 1..Len(resolutions) :
            resolutions[k].outcome \in {"failed", Null} =>
                \A e \in 1..Len(relationshipEntries) :
                    relationshipEntries[e].targetId = resolutions[k].id =>
                        SeqHas(relationships[relationshipEntries[e].type], resolutions[k].id)

C12_Witness ==
    /\ pc = "done"
    /\ resolutions = <<[id |-> "Y", outcome |-> "failed"]>>
    /\ relationships["ownedBy"] = <<"Y">>

\* The follow-up requests: all but the primary and the adjacency request.
FollowUps == SubSeq(requests, 3, Len(requests))

\* C15: every identifier recorded as unresolved gets exactly one getEntity
\* attempt, in order, whatever the earlier attempts came to: while the
\* resolution runs the attempts are the first resolveIdx identifiers, and the
\* call returns only after all of them were attempted.
C15_EveryUnresolvedAttemptedOnce ==
    /\ NoDuplicates(unresolvedIds)
    /\ pc = "resolve" =>
          /\ FollowUps = [k \in 1..resolveIdx |-> EntityRequest(unresolvedIds[k])]
          /\ Len(resolutions) = resolveIdx - 1
    /\ pc = "done" =>
          /\ FollowUps = [k \in 1..Len(unresolvedIds) |-> EntityRequest(unresolvedIds[k])]
          /\ Len(resolutions) = Len(unresolvedIds)

C15_Witness ==
    /\ pc = "done"
    /\ Len(resolutions) = 2
    /\ resolutions[1].outcome = "failed"
    /\ resolutions[2].outcome \in Captions

\* C16: a follow-up getEntity is issued only for identifiers the caption map
\* had no entry for when the resolution began; the anchor and every
\* identifier seeded from a record or an embedded reference is not fetched.
C16_OnlyUncachedFetched ==
    /\ \A k \in 1..Len(FollowUps) : FollowUps[k].id \notin cachedAtResolve
    /\ pc \in {"resolve", "done"} => entityId \in cachedAtResolve

C16_Witness ==
    /\ pc = "done"
    /\ \E e \in 1..Len(relationshipEntries) : relationshipEntries[e].targetId = "Z"
    /\ "Z" \in cachedAtResolve
    /\ FollowUps = <<EntityRequest("Y")>>

\* C17: no display name is in any bucket before every caption-resolution
\* fetch of the call has settled, with a caption or with a failure.
C17_BucketsAfterResolution ==
    relationships # NoRelationships =>
        /\ pc = "done"
        /\ Len(resolutions) = Len(unresolvedIds)
        /\ \A k \in 1..Len(resolutions) : resolutions[k].id = unresolvedIds[k]

C17_Witness ==
    /\ pc = "done"
    /\ Len(resolutions) = 2
    /\ relationships["ownerOf"] # <<>>

\* C19: a request failure that carries no HTTP status is reported as the
\* network-unreachable kind.
C19_NoStatusIsNetworkKind ==
    (primaryFailure # NoFailure /\ primaryFailure.status = 0) => error = "NetworkUnreachable"

\* The identifiers of the records of a list.
IdsOf(recs) == {recs[k].id : k \in 1..Len(recs)}

\* C13: a relationship identifier that is both in the adjacency list and
\* among the embedded records is in the working set, and so classified,
\* exactly once, and in its adjacency-list copy.
C13_DuplicateClassifiedOnce ==
    mPhase = "merged" =>
        \A i \in IdsOf(Flatten(mGroups, 1)) \cap IdsOf(mNested) :
            /\ Cardinality({k \in 1..Len(mOut) : mOut[k].id = i}) = 1
            /\ \A k \in 1..Len(mOut) :
                  mOut[k].id = i => SeqHas(Flatten(mGroups, 1), mOut[k])

\* C14: the working set holds no two records with the same identifier.
C14_WorkingSetDistinctIds ==
    mPhase = "merged" =>
        \A j, k \in 1..Len(mOut) : j # k => mOut[j].id # mOut[k].id

\* The identifier of the first value of the list that carries one.
FirstResolvable(p) ==
    IF RoleIds(p) = {} THEN Null
    ELSE LET k == CHOOSE j \in 1..Len(p.vals) :
                     /\ p.vals[j].kind # "junk"
                     /\ \A h \in 1..(j - 1) : p.vals[h].kind = "junk"
         IN p.vals[k].id

\* C18: extractFirstTarget returns the identifier of the first value of the
\* list that is a string or an embedded reference with an identifier, and
\* null only when the list has no such value.
C18_FirstResolvableReturned ==
    xPhase = "extracted" => xOut.id = FirstResolvable(xValues)

\* C20: every request carries the Authorization header of the key that was
\* configured when its caller invoked makeRequest.
C20_KeyAtInvocation ==
    \A k \in 1..Len(sent) : sent[k].header = AuthorizationHeader(sent[k].configured)

\* The results of all groups, one after the other.
RECURSIVE ConcatResults(_)
ConcatResults(groups) ==
    IF groups = <<>> THEN <<>>
    ELSE (IF Head(groups).isArray THEN Head(groups).results ELSE <<>>)
         \o ConcatResults(Tail(groups))

\* C21 as stated: getAdjacent never fails; it returns the concatenation of
\* the groups' results for the grouped shape, and an empty sequence for
\* every other response.
C21_EmptyUnlessGrouped ==
    gPhase = "returned" =>
        /\ ~gOut.threw
        /\ gOut.isArray
        /\ gOut.items = IF gResponse.shape = "grouped" THEN ConcatResults(gResponse.groups)
                        ELSE <<>>

\* C21 amended: getAdjacent never fails; it returns the concatenation of the
\* groups' results for the grouped shape, the body itself when the body is
\* an array, the value of `results` when the body has one, and an empty
\* sequence for an unavailable endpoint and every other body.
C21_WithFallbackShapes ==
    gPhase = "returned" =>
        /\ ~gOut.threw
        /\ CASE gResponse.shape = "grouped" ->
                    gOut.isArray /\ gOut.items = ConcatResults(gResponse.groups)
             [] gResponse.shape \in {"array", "results"} ->
                    gOut.isArray /\ gOut.items = gResponse.items
             [] gResponse.shape = "resultsValue" -> ~gOut.isArray
             [] OTHER -> gOut.isArray /\ gOut.items = <<>>

C21_Witness ==
    /\ gPhase = "returned"
    /\ gResponse.shape = "grouped"
    /\ Len(gResponse.groups) = 2
    /\ Len(gOut.items) = 2

\* C22: the same record classified twice relative to the same anchor, the
\* caption map being in any state the second time, yields the same category
\* and the same counterpart both times (or raises both times).
C22_ClassificationRepeatable ==
    cPhase = "again" =>
        /\ cAgain.entries = cOut.entries
        /\ cAgain.threw = cOut.threw

C22_Witness ==
    /\ cPhase = "again"
    /\ cCache = [x \in {"Y"} |-> "b"]
    /\ cOut.entries = <<Entry("ownerOf", "Y")>>
    /\ cOut.unresolved = <<"Y">>
    /\ cAgain.entries = <<Entry("ownerOf", "Y")>>
    /\ cAgain.unresolved = <<>>

\* The display name of the k-th classified counterpart when the call returns.
EntryName(k) ==
    LET id == relationshipEntries[k].targetId
    IN IF id \in DOMAIN captionMap /\ captionMap[id] # Null THEN captionMap[id] ELSE id

\* The first entry of category n, in working-set order, displayed as name.
FirstSeen(n, name) ==
    CHOOSE k \in 1..Len(relationshipEntries) :
        /\ relationshipEntries[k].type = n /\ EntryName(k) = name
        /\ \A h \in 1..(k - 1) :
              ~(relationshipEntries[h].type = n /\ EntryName(h) = name)

\* C23: each bucket holds the display names of its category's entries in
\* first-seen order: a name stands before another exactly if the first
\* working-set record that produced it comes before the other's.
C23_FirstSeenOrder ==
    pc = "done" =>
        \A n \in BucketNames :
            /\ {relationships[n][i] : i \in 1..Len(relationships[n])}
                  = {EntryName(k) : k \in {h \in 1..Len(relationshipEntries) :
                                                relationshipEntries[h].type = n}}
            /\ \A i, j \in 1..Len(relationships[n]) :
                  i < j => FirstSeen(n, relationships[n][i]) < FirstSeen(n, relationships[n][j])

C23_Witness ==
    /\ pc = "done"
    /\ Len(adjacent) = 2
    /\ adjacent[1].b = List(<<StrVal("Y")>>)
    /\ adjacent[2].b = List(<<ObjVal("Z", "a")>>)
    /\ relationships["ownerOf"] = <<"Y", "a">>

\* C24: in Quick Import mode with rememberLastConfig on, every note of an
\* entity whose schema has a last-used configuration is generated with that
\* configuration.
C24_QuickImportUsesLastConfig ==
    (iMode = "quick" /\ rememberLastConfig) =>
        \A k \in 1..Len(generated) :
            lastUsedFieldConfigs[generated[k].schema] # Null =>
                generated[k].config = lastUsedFieldConfigs[generated[k].schema]

\* C27: the handler goes through the selected entities one at a time and in
\* order; every entity is attempted whatever became of the ones before it,
\* and each failure is reported by a Notice.
C27_EveryEntityAttempted ==
    hpc # "idle" =>
        /\ Len(attempts) = IF hpc \in {"enrich", "note"} THEN hIdx - 1 ELSE Len(selectedResults)
        /\ Len(notices) = Len(attempts)
        /\ \A k \in 1..Len(attempts) :
              /\ attempts[k].id = selectedResults[k].id
              /\ notices[k] = [kind |-> IF attempts[k].created THEN "created" ELSE "error",
                               id |-> selectedResults[k].id]

C27_Witness ==
    /\ hpc = "rejected"
    /\ Len(attempts) = 2
    /\ ~attempts[1].enriched
    /\ attempts[2].created

\* C25: between two clearCache calls at most one getEntity request is made
\* per identifier, however the processEntityRelationships calls overlap.
C25_OneRequestPerIdentifier ==
    \A i \in TargetIds : requestsSinceClear[i] <= 1

\* The call found a file at its target path.
TargetWasFile == 0 \in DOMAIN nBefore /\ nBefore[0].kind = "file"

\* C26: with overwriteExisting false, createNoteWithContent leaves every
\* entry the vault had as it was, and when its target is an existing file it
\* creates the note at "name (n).md" for the smallest n >= 1 whose path was
\* not taken.
C26_NumberedCopy ==
    (npc \in {"found", "done"} /\ ~nRead) =>
        /\ \A i \in DOMAIN nBefore : i \in DOMAIN vault /\ vault[i] = nBefore[i]
        /\ (npc = "done" /\ TargetWasFile) =>
              \E n \in 1..(Cardinality(DOMAIN nBefore) + 1) :
                  /\ n \notin DOMAIN nBefore
                  /\ \A m \in 1..(n - 1) : m \in DOMAIN nBefore
                  /\ nPath = n
                  /\ nOutcome = "created"
                  /\ DOMAIN vault = DOMAIN nBefore \cup {n}
                  /\ vault[n] = File(nContent)

\* A numbered copy that had to skip a path already taken.
C26_Witness ==
    /\ npc = "done"
    /\ ~nRead
    /\ TargetWasFile
    /\ 1 \in DOMAIN nBefore
    /\ nPath = 2
    /\ nOutcome = "created"

\* C28: at most one search request of the modal is in flight, and isLoading
\* is true exactly while one is.
C28_OneRequestInFlight ==
    /\ Len(inFlight) <= 1
    /\ isLoading <=> (Len(inFlight) = 1)

\* A trigger that arrived while a request was in flight.
C28_Witness ==
    /\ sEvent = "ignored"
    /\ isLoading
    /\ Len(inFlight) = 1

\* C29: after a failed loadMore, searchResults and the offset the next
\* loadMore requests are what they were before the call.
C29_FailedLoadMoreKeepsPage ==
    (sEvent = "more failed") =>
        /\ searchResults = sBefore.results
        /\ currentOffset + PageSize = sBefore.next

\* The requests of a call: the primary getEntity first and once, getAdjacent
\* second if at all and only when the primary entity arrived, and no two
\* getEntity requests for the same identifier.
RequestsOfOneCall ==
    /\ pc # "idle" => (requests # <<>> /\ requests[1] = EntityRequest(entityId))
    /\ \A k \in 1..Len(requests) :
          requests[k].endpoint = "adjacent" =>
              /\ k = 2
              /\ entity # NoEntity
              /\ requests[k].id = entityId
    /\ \A j, k \in 1..Len(requests) :
          (j < k /\ requests[j].endpoint = "entity" /\ requests[k].endpoint = "entity")
              => requests[j].id # requests[k].id

\* C30: when every request is answered, a fetchWithRelationships call comes
\* to its end, having made one primary fetch, at most one adjacency fetch
\* after the primary entity arrived, and at most one follow-up fetch per
\* counterpart identifier.
C30_CallCompletes ==
    /\ []RequestsOfOneCall
    /\ (pc # "idle") ~> (pc \in {"done", "failed"} /\ RequestsOfOneCall)

\* A call that ended after the primary, the adjacency and two follow-up
\* fetches.
C30_Witness ==
    /\ pc = "done"
    /\ Len(requests) = 4
    /\ requests[2].endpoint = "adjacent"
    /\ requests[3].id # requests[4].id

====
